---- MODULE Spec2Model ----
(***************************************************************************)
(* Model of rfp_simulator.py: the rate tables, the cost calculator         *)
(* (per_solution_table, calculate_costs), the money formatter (fmt_money), *)
(* the workbook/document exporters and the Calculate/Sample/Reset form     *)
(* handlers of the Streamlit script.                                       *)
(*                                                                         *)
(* Conventions                                                             *)
(*  - Python str values that the code inspects character by character      *)
(*    (the headcount text, sheet names, formatted money) are sequences of  *)
(*    one-character strings; labels and identifiers are TLA+ strings.      *)
(*  - Python None is the record None.                                      *)
(*  - The outcome of a call is a record [raised, value]: raised is "None"  *)
(*    when the call returned, else the name of the exception.              *)
(*  - Python floats that the code produces are all exactly representable   *)
(*    here (see FloatMul, FloatDiv) and are modelled by their exact value. *)
(***************************************************************************)
EXTENDS Integers, Sequences, FiniteSets, TLC

VARIABLES
    \* --- Streamlit script: session state and what the last run rendered
    form,               \* st.session_state.form
    pc,                 \* "idle" | "stopped" (st.stop after errors) | "calculated"
    errors,             \* the errors list of the last Calculate run
    hc_val,             \* the parsed headcount of the last Calculate run
    results,            \* calculate_costs(hc_val, techs)
    df_solutions,       \* per_solution_table(hc_val, techs)
    df_display,         \* df_solutions with the cost columns through fmt_money
    financial_summary,  \* the formatted financial summary
    payback_display,    \* round(payback_years, 2) as written to the page, in hundredths
    excel_bytes,        \* to_excel_bytes(df_excel, run_meta)
    pdf_bytes,          \* to_pdf_bytes(...)
    \* --- direct calls of the calculator
    call_h, call_techs, ret_table, ret_costs,
    \* --- direct calls of fmt_money
    fmt_arg, ret_fmt,
    \* --- direct calls of to_excel_bytes
    xl_tables, xl_meta, ret_excel

uiVars    == <<form, pc, errors, hc_val, results, df_solutions, df_display,
               financial_summary, payback_display, excel_bytes, pdf_bytes>>
calcVars  == <<call_h, call_techs, ret_table, ret_costs>>
fmtVars   == <<fmt_arg, ret_fmt>>
excelVars == <<xl_tables, xl_meta, ret_excel>>
vars      == <<uiVars, calcVars, fmtVars, excelVars>>

(***************************************************************************)
(* Bounds of the model                                                     *)
(***************************************************************************)
MaxHeadcount == 25      \* direct calculator calls use headcounts -1..MaxHeadcount
MaxSelLen    == 2       \* arbitrary selection lists (duplicates, unknown ids) up to this length
MaxTextLen   == 1       \* every text up to this length is typed in the Headcount box
MaxFmtNum    == 12      \* fmt_money numerators are -MaxFmtNum..MaxFmtNum
MaxTables    == 2       \* number of entries of the dict passed to to_excel_bytes
MaxClock     == 2       \* distinct values datetime.now() takes in direct export calls

(***************************************************************************)
(* Python values                                                           *)
(***************************************************************************)
None == [none |-> TRUE]

Returned(v) == [raised |-> "None", value |-> v]
Raised(e)   == [raised |-> e, value |-> None]
NotCalled   == [raised |-> "NotCalled", value |-> None]

Min(a, b) == IF a < b THEN a ELSE b
Abs(n)    == IF n < 0 THEN -n ELSE n

RECURSIVE Gcd(_, _)
Gcd(a, b) == IF b = 0 THEN a ELSE Gcd(b, a % b)

\* the builtin sum() over a list of numbers
RECURSIVE sum(_)
sum(s) == IF s = <<>> THEN 0 ELSE Head(s) + sum(Tail(s))

\* list membership: `t in lst`
InList(t, lst) == \E i \in 1..Len(lst) : lst[i] = t

(***************************************************************************)
(* Configuration / assumptions                                             *)
(***************************************************************************)
ANNUAL_COST_PER_FTE == 60000
IMPLEMENTATION_PCT  == 20       \* 0.20, in hundredths
SAVINGS_PCT         == 30       \* 0.30, in hundredths

ALL_TECHS == <<"RPA", "VBA", "Celonis", "Soroco", "Analytics", "AI">>

TECH_LICENSE_COSTS ==
    [RPA |-> 5000, VBA |-> 0, Celonis |-> 10000, Soroco |-> 8000,
     Analytics |-> 7000, AI |-> 12000]

DEV_COSTS ==
    [RPA |-> 20000, VBA |-> 1000, Celonis |-> 30000, Soroco |-> 25000,
     Analytics |-> 15000, AI |-> 40000]

USER_LICENSE_PER_TECH ==
    [RPA |-> 100, VBA |-> 0, Celonis |-> 200, Soroco |-> 150,
     Analytics |-> 120, AI |-> 250]

CatalogSet == {ALL_TECHS[i] : i \in 1..Len(ALL_TECHS)}

(***************************************************************************)
(* Float arithmetic of calculate_costs.                                    *)
(* FloatMul(n, pct) is n * d where d is the double nearest pct/100.  For   *)
(* pct = 20 and pct = 30 the relative error of d is at most 2^-54, so for  *)
(* every n with n*pct/100 an integer below 2^53 the correctly rounded      *)
(* product is that integer.  n is always headcount * 60000, a multiple of  *)
(* 100, hence the product is modelled by its exact integer value.          *)
(* FloatDiv(a, b) is the correctly rounded quotient of two exactly         *)
(* represented numbers; it is determined by the rational a/b and is        *)
(* modelled by that rational in lowest terms (positive denominator).       *)
(***************************************************************************)
FloatMul(n, pct) == (n * pct) \div 100

FloatDiv(a, b) ==
    LET g == Gcd(Abs(a), Abs(b))
        s == IF b < 0 THEN -1 ELSE 1
    IN  [num |-> s * (a \div g), den |-> s * (b \div g)]

(***************************************************************************)
(* per_solution_table                                                      *)
(***************************************************************************)
\* d[tech]: KeyError when tech is not a key of d
HasKey(d, k) == k \in DOMAIN d

\* variant of TechRow: the per-user license cost is not multiplied by the headcount
TechRow_flat_user(tech, headcount, selected_techs) ==
    LET sel               == InList(tech, selected_techs)
        license_cost      == IF sel THEN TECH_LICENSE_COSTS[tech] ELSE 0
        dev_cost          == IF sel THEN DEV_COSTS[tech] ELSE 0
        user_license_cost == IF sel THEN USER_LICENSE_PER_TECH[tech] ELSE 0
        total_cost        == license_cost + dev_cost + user_license_cost
    IN  [Solution          |-> tech,
         License_Cost      |-> license_cost,
         Development_Cost  |-> dev_cost,
         User_License_Cost |-> user_license_cost,
         Total_Cost        |-> total_cost]

\* variant of TechRow: the development cost is charged whether selected or not
TechRow_dev_always(tech, headcount, selected_techs) ==
    LET sel               == InList(tech, selected_techs)
        license_cost      == IF sel THEN TECH_LICENSE_COSTS[tech] ELSE 0
        dev_cost          == DEV_COSTS[tech]
        user_license_cost == IF sel THEN USER_LICENSE_PER_TECH[tech] * headcount ELSE 0
        total_cost        == license_cost + dev_cost + user_license_cost
    IN  [Solution          |-> tech,
         License_Cost      |-> license_cost,
         Development_Cost  |-> dev_cost,
         User_License_Cost |-> user_license_cost,
         Total_Cost        |-> total_cost]

\* one iteration of the loop over ALL_TECHS: the row appended for tech
TechRow(tech, headcount, selected_techs) ==
    LET sel               == InList(tech, selected_techs)
        license_cost      == IF sel THEN TECH_LICENSE_COSTS[tech] ELSE 0
        dev_cost          == IF sel THEN DEV_COSTS[tech] ELSE 0
        user_license_cost == IF sel THEN USER_LICENSE_PER_TECH[tech] * headcount ELSE 0
        total_cost        == license_cost + dev_cost + user_license_cost
    IN  [Solution          |-> tech,
         License_Cost      |-> license_cost,
         Development_Cost  |-> dev_cost,
         User_License_Cost |-> user_license_cost,
         Total_Cost        |-> total_cost]

Column(rows, c) == [i \in 1..Len(rows) |-> rows[i][c]]

\* variant of TotalsRow: the grand total leaves out the user license column
TotalsRow_no_user(rows) ==
    [Solution          |-> "Total Cost",
     License_Cost      |-> sum(Column(rows, "License_Cost")),
     Development_Cost  |-> sum(Column(rows, "Development_Cost")),
     User_License_Cost |-> sum(Column(rows, "User_License_Cost")),
     Total_Cost        |-> sum(Column(rows, "License_Cost"))
                            + sum(Column(rows, "Development_Cost"))]

\* variant of TotalsRow: the sums start at the second row
TotalsRow_skip_first(rows) ==
    [Solution          |-> "Total Cost",
     License_Cost      |-> sum(Tail(Column(rows, "License_Cost"))),
     Development_Cost  |-> sum(Tail(Column(rows, "Development_Cost"))),
     User_License_Cost |-> sum(Tail(Column(rows, "User_License_Cost"))),
     Total_Cost        |-> sum(Tail(Column(rows, "Total_Cost")))]

\* the totals dict built after the loop
TotalsRow(rows) ==
    [Solution          |-> "Total Cost",
     License_Cost      |-> sum(Column(rows, "License_Cost")),
     Development_Cost  |-> sum(Column(rows, "Development_Cost")),
     User_License_Cost |-> sum(Column(rows, "User_License_Cost")),
     Total_Cost        |-> sum(Column(rows, "Total_Cost"))]

\* the subscripts of one iteration raise KeyError when a selected tech of
\* ALL_TECHS is missing from one of the rate tables
RowRaises(tech, selected_techs) ==
    /\ InList(tech, selected_techs)
    /\ ~ (HasKey(TECH_LICENSE_COSTS, tech) /\ HasKey(DEV_COSTS, tech)
            /\ HasKey(USER_LICENSE_PER_TECH, tech))

per_solution_table(headcount, selected_techs) ==
    IF \E i \in 1..Len(ALL_TECHS) : RowRaises(ALL_TECHS[i], selected_techs)
    THEN Raised("KeyError")
    ELSE LET rows == [i \in 1..Len(ALL_TECHS) |->
                        TechRow(ALL_TECHS[i], headcount, selected_techs)]
         IN  Returned(Append(rows, TotalsRow(rows)))

(***************************************************************************)
(* calculate_costs                                                         *)
(***************************************************************************)
\* variant of LicenseLookup: TECH_LICENSE_COSTS[t], KeyError for a missing key
LicenseLookup_subscript(t) ==
    IF HasKey(TECH_LICENSE_COSTS, t) THEN Returned(TECH_LICENSE_COSTS[t])
    ELSE Raised("KeyError")

\* the outcome of TECH_LICENSE_COSTS.get(t, 0): never raises, 0 for a missing key
LicenseLookup(t) ==
    Returned(IF HasKey(TECH_LICENSE_COSTS, t) THEN TECH_LICENSE_COSTS[t] ELSE 0)

\* the generator of tech_cost raises when one of its lookups does
TechCostRaises(selected_techs) ==
    \E i \in 1..Len(selected_techs) : LicenseLookup(selected_techs[i]).raised # "None"

\* variant of TechCost: the development cost is added to the license cost
TechCost_with_dev(selected_techs) ==
    sum([i \in 1..Len(selected_techs) |->
            LicenseLookup(selected_techs[i]).value
              + (IF HasKey(DEV_COSTS, selected_techs[i]) THEN DEV_COSTS[selected_techs[i]] ELSE 0)])

\* sum(TECH_LICENSE_COSTS.get(t, 0) for t in selected_techs)
TechCost(selected_techs) ==
    sum([i \in 1..Len(selected_techs) |-> LicenseLookup(selected_techs[i]).value])

\* variant of Payback: 0 rather than None when there are no savings
Payback_zero(implementation_cost, annual_savings) ==
    IF annual_savings # 0 /\ annual_savings > 0
    THEN FloatDiv(implementation_cost, annual_savings)
    ELSE [num |-> 0, den |-> 1]

\* payback_years: None unless `annual_savings and annual_savings > 0`
Payback(implementation_cost, annual_savings) ==
    IF annual_savings # 0 /\ annual_savings > 0
    THEN FloatDiv(implementation_cost, annual_savings)
    ELSE None

calculate_costs(headcount, selected_techs) ==
    LET headcount_cost      == headcount * ANNUAL_COST_PER_FTE
        implementation_cost == FloatMul(headcount_cost, IMPLEMENTATION_PCT)
        annual_savings      == FloatMul(headcount_cost, SAVINGS_PCT)
        tech_cost           == TechCost(selected_techs)
        net_annual_cost     == headcount_cost - annual_savings + tech_cost
    IN  IF TechCostRaises(selected_techs) THEN Raised("KeyError")
        ELSE Returned([headcount_cost      |-> headcount_cost,
                 implementation_cost |-> implementation_cost,
                 tech_cost           |-> tech_cost,
                 annual_savings      |-> annual_savings,
                 net_annual_cost     |-> net_annual_cost,
                 payback_years       |-> Payback(implementation_cost, annual_savings)])

(***************************************************************************)
(* fmt_money                                                               *)
(* A Python value is [kind, num, den]: kind "int" or "bool" (value num),   *)
(* "float" (the exactly representable value num/den, den > 0), "inf",      *)
(* "nan", or a non-numeric kind ("str", "NoneType", "list").               *)
(***************************************************************************)
CURRENCY == <<"$">>

PyInt(n)      == [kind |-> "int", num |-> n, den |-> 1]
PyFloat(n, d) == [kind |-> "float", num |-> n, den |-> d]
PyOther(k)    == [kind |-> k, num |-> 0, den |-> 1]

DigitChar(d) == <<"0", "1", "2", "3", "4", "5", "6", "7", "8", "9">>[d + 1]

RECURSIVE Digits(_)
Digits(n) == IF n < 10 THEN <<DigitChar(n)>>
             ELSE Digits(n \div 10) \o <<DigitChar(n % 10)>>

Pad3(n) == <<DigitChar(n \div 100), DigitChar((n \div 10) % 10), DigitChar(n % 10)>>

\* format(n, ",") for n >= 0: groups of three digits separated by commas
RECURSIVE Grouped(_)
Grouped(n) == IF n < 1000 THEN Digits(n)
              ELSE Grouped(n \div 1000) \o <<",">> \o Pad3(n % 1000)

\* f"{n:,}" for an int n
FormatInt(n) == IF n < 0 THEN <<"-">> \o Grouped(-n) ELSE Grouped(n)

\* round(num/den) for a float: nearest integer, ties to the even one
RoundHalfEven(num, den) ==
    LET q == num \div den
        r == num % den
    IN  IF 2 * r < den THEN q
        ELSE IF 2 * r > den THEN q + 1
        ELSE IF q % 2 = 0 THEN q ELSE q + 1

\* int(round(x)): the exception it raises, or the int
IntRound(x) ==
    CASE x.kind = "int"   -> Returned(x.num)
      [] x.kind = "bool"  -> Returned(x.num)
      [] x.kind = "float" -> Returned(RoundHalfEven(x.num, x.den))
      [] x.kind = "inf"   -> Raised("OverflowError")
      [] x.kind = "nan"   -> Raised("ValueError")
      [] OTHER            -> Raised("TypeError")

\* variant of fmt_money: the exception of int(round(x)) is not caught
fmt_money_no_except(x) ==
    LET r == IntRound(x)
    IN  IF r.raised = "None"
        THEN Returned(CURRENCY \o FormatInt(r.value))
        ELSE Raised(r.raised)

\* try: return f"{CURRENCY}{int(round(x)):,}"  except: return f"{CURRENCY}0"
fmt_money(x) ==
    LET r == IntRound(x)
    IN  IF r.raised = "None"
        THEN Returned(CURRENCY \o FormatInt(r.value))
        ELSE Returned(CURRENCY \o <<"0">>)

(***************************************************************************)
(* Validation of the Calculate handler: int(float(str(headcount).strip())) *)
(* over texts written with the characters of TextAlphabet.                 *)
(***************************************************************************)
TextAlphabet == {"0", "1", ".", "-", " "}
DigitChars   == {"0", "1", "2", "3", "4", "5", "6", "7", "8", "9"}

DigitOf(c) == CHOOSE d \in 0..9 : DigitChar(d) = c

\* str.strip(): drop leading and trailing blanks
RECURSIVE LStrip(_)
LStrip(s) == IF s # <<>> /\ Head(s) = " " THEN LStrip(Tail(s)) ELSE s

RECURSIVE RStrip(_)
RStrip(s) == IF s # <<>> /\ s[Len(s)] = " " THEN RStrip(SubSeq(s, 1, Len(s) - 1)) ELSE s

strip(s) == RStrip(LStrip(s))

\* value of a run of decimal digits, 0 for the empty run
RECURSIVE DigitsValue(_)
DigitsValue(s) == IF s = <<>> THEN 0
                  ELSE 10 * DigitsValue(SubSeq(s, 1, Len(s) - 1)) + DigitOf(s[Len(s)])

AllDigits(s) == \A i \in 1..Len(s) : s[i] \in DigitChars

\* position of the first "." of s, Len(s)+1 when there is none
DotPos(s) == IF \E i \in 1..Len(s) : s[i] = "."
             THEN CHOOSE i \in 1..Len(s) : s[i] = "." /\ \A j \in 1..(i - 1) : s[j] # "."
             ELSE Len(s) + 1

\* float(s) on a stripped text: [ok, neg, ipart, fpart] where the value is
\* (-1)^neg * ipart.fpart; ok = FALSE is ValueError
ParseFloat(s) ==
    LET neg  == s # <<>> /\ Head(s) = "-"
        body == IF neg THEN Tail(s) ELSE s
        dp   == DotPos(body)
        ip   == SubSeq(body, 1, dp - 1)
        fp   == SubSeq(body, dp + 1, Len(body))
        ok   == AllDigits(ip) /\ AllDigits(fp) /\ Len(ip) + Len(fp) > 0
    IN  [ok |-> ok, neg |-> neg, ipart |-> ip, fpart |-> fp]

\* int(float(str(headcount).strip())): truncation toward zero
ParseHeadcount(headcount) ==
    LET f == ParseFloat(strip(headcount))
    IN  IF ~ f.ok THEN Raised("ValueError")
        ELSE Returned(IF f.neg THEN -DigitsValue(f.ipart) ELSE DigitsValue(f.ipart))

\* `not v` for a selectbox value: None and "" are falsy
Falsy(v) == v = None \/ v = [s |-> ""]

\* the errors list built by the validation block
Validate(headcount, region, hc_category, process_type, transform_scale) ==
    LET p  == ParseHeadcount(headcount)
        e1 == IF p.raised # "None" THEN <<"Headcount must be an integer.">>
              ELSE IF p.value <= 0 THEN <<"Headcount must be > 0.">>
              ELSE <<>>
        e2 == IF Falsy(region) \/ Falsy(hc_category) \/ Falsy(process_type)
                    \/ Falsy(transform_scale)
              THEN <<"All dropdowns are mandatory.">>
              ELSE <<>>
    IN  e1 \o e2

(***************************************************************************)
(* to_excel_bytes                                                          *)
(* df_dict is a list of entries [name, df] with distinct names (a dict in  *)
(* insertion order).  The workbook is the list of its sheets [name, data]. *)
(* Writing to a sheet name the workbook already has is answered by the     *)
(* libraries in one of two ways, chosen by on_dup: "reuse" - the writer    *)
(* looks the name up in its sheets and writes the new table over the       *)
(* existing worksheet; "raise" - the workbook rejects the second           *)
(* worksheet of that name (DuplicateWorksheetName).                        *)
(***************************************************************************)
SheetNameMax == 31

META_SHEET == <<"M", "e", "t", "a">>

\* name[:31]
Truncate(name) == SubSeq(name, 1, Min(Len(name), SheetNameMax))

HasSheet(sheets, name) == \E i \in 1..Len(sheets) : sheets[i].name = name

\* df.to_excel(writer, sheet_name=sheet_name, index=False) on the writer
\* state w = [raised, sheets]
WriteSheet(w, sheet_name, df, on_dup) ==
    IF w.raised # "None" THEN w
    ELSE IF ~ HasSheet(w.sheets, sheet_name)
         THEN [w EXCEPT !.sheets = Append(@, [name |-> sheet_name, data |-> df])]
    ELSE IF on_dup = "raise"
         THEN [w EXCEPT !.raised = "DuplicateWorksheetName"]
    ELSE [w EXCEPT !.sheets = [i \in 1..Len(@) |->
                IF @[i].name = sheet_name THEN [name |-> sheet_name, data |-> df]
                ELSE @[i]]]

\* the loop `for name, df in df_dict.items()` from entry i on
RECURSIVE WriteTables(_, _, _, _)
WriteTables(w, df_dict, i, on_dup) ==
    IF i > Len(df_dict) THEN w
    ELSE WriteTables(WriteSheet(w, Truncate(df_dict[i].name), df_dict[i].df, on_dup),
                     df_dict, i + 1, on_dup)

to_excel_bytes(df_dict, run_meta, on_dup) ==
    LET w0 == [raised |-> "None", sheets |-> <<>>]
        w1 == WriteTables(w0, df_dict, 1, on_dup)
        w2 == WriteSheet(w1, META_SHEET, [meta |-> run_meta], on_dup)
    IN  IF w2.raised # "None" THEN Raised(w2.raised) ELSE Returned(w2.sheets)

(***************************************************************************)
(* to_pdf_bytes: the document as the ordered list of what is written       *)
(***************************************************************************)
COST_COLUMNS == <<"License_Cost", "Development_Cost", "User_License_Cost", "Total_Cost">>

\* one table line: the solution name and the four cells through fmt_money
PdfRow(row) ==
    <<row.Solution>> \o
    [c \in 1..Len(COST_COLUMNS) |-> fmt_money(PyInt(row[COST_COLUMNS[c]])).value]

to_pdf_bytes(run_meta, inputs_display, solutions, summary) ==
    Returned([title   |-> "RFP Simulator Summary",
              run_id  |-> run_meta.RunID,
              stamp   |-> run_meta.Timestamp,
              inputs  |-> inputs_display,
              headers |-> <<"Solution", "License", "Dev", "User Lic", "Total">>,
              rows    |-> [i \in 1..Len(solutions) |-> PdfRow(solutions[i])],
              summary |-> summary])

(***************************************************************************)
(* The Streamlit script: one run per pressed button                        *)
(***************************************************************************)
Str(t) == [s |-> t]

EmptyForm ==
    [headcount |-> <<>>, region |-> Str(""), hc_category |-> Str(""),
     process_type |-> Str(""), transform_scale |-> Str(""), techs |-> <<>>]

SampleForm ==
    [headcount |-> <<"2", "5">>, region |-> Str("North America"),
     hc_category |-> Str("Ops"), process_type |-> Str("Claims"),
     transform_scale |-> Str("Large"), techs |-> <<"RPA", "AI">>]

\* texts the user can type in the Headcount box
HeadcountTexts ==
    UNION {[1..n -> TextAlphabet] : n \in 0..MaxTextLen}
      \cup {<<"2", "5">>, <<"1", "0">>, <<"-", "1">>, <<"1", ".">>, <<".", "5">>,
            <<"x">>, <<"2", "x">>, <<"1", ".", "2">>, <<"2", ".", "0">>,
            <<" ", "7", " ">>, <<"0", ".", "9">>, <<"-", "0", ".", "5">>}

\* what a selectbox returns: the empty first option, another option, or
\* None when nothing is selected (index=None)
FILLED == <<Str("EMEA"), Str("Ops"), Str("Claims"), Str("Large")>>

\* the four selectbox values of a submission: all filled, all empty, or one
\* of them empty or None
DropdownInputs ==
    {FILLED, <<Str(""), Str(""), Str(""), Str("")>>}
      \cup {[FILLED EXCEPT ![i] = v] : i \in 1..4, v \in {Str(""), None}}

\* the checkboxes are read in ALL_TECHS order: techs is a sub-list of it
Ticked(S) == LET Test(t) == t \in S IN SelectSeq(ALL_TECHS, Test)
UiTechs == {Ticked({}), Ticked({"RPA", "AI"})}

\* datetime.now() of a Calculate run, and of direct export calls
NOW == 1
Clock == 1..MaxClock

NoResults ==
    /\ errors' = <<>>
    /\ hc_val' = None
    /\ results' = NotCalled
    /\ df_solutions' = NotCalled
    /\ df_display' = <<>>
    /\ financial_summary' = None
    /\ payback_display' = None
    /\ excel_bytes' = NotCalled
    /\ pdf_bytes' = NotCalled

\* if reset: clear the form and rerun
Reset ==
    /\ form' = EmptyForm
    /\ pc' = "idle"
    /\ NoResults
    /\ UNCHANGED <<calcVars, fmtVars, excelVars>>

\* if sample: load the sample inputs and rerun
Sample ==
    /\ form' = SampleForm
    /\ pc' = "idle"
    /\ NoResults
    /\ UNCHANGED <<calcVars, fmtVars, excelVars>>

Money(n) == fmt_money(PyInt(n)).value

\* df_display: the four cost columns of every row through fmt_money
DisplayRow(row) ==
    [Solution          |-> row.Solution,
     License_Cost      |-> Money(row.License_Cost),
     Development_Cost  |-> Money(row.Development_Cost),
     User_License_Cost |-> Money(row.User_License_Cost),
     Total_Cost        |-> Money(row.Total_Cost)]

FinancialSummary(r) ==
    [Annual_Labor    |-> fmt_money(PyInt(r.headcount_cost)).value,
     Annual_Savings  |-> fmt_money(PyFloat(-r.annual_savings, 1)).value,
     Annual_Tooling  |-> fmt_money(PyInt(r.tech_cost)).value,
     Implementation  |-> fmt_money(PyFloat(r.implementation_cost, 1)).value,
     Net_Annual_Cost |-> fmt_money(PyFloat(r.net_annual_cost, 1)).value]

\* if results["payback_years"]: write round(payback_years, 2)
PaybackDisplay(payback_years) ==
    IF "none" \in DOMAIN payback_years \/ payback_years.num = 0 THEN None
    ELSE [hundredths |-> RoundHalfEven(payback_years.num * 100, payback_years.den)]

SOLUTIONS_SHEET == <<"S", "o", "l", "u", "t", "i", "o", "n", "s">>
INPUTS_SHEET    == <<"I", "n", "p", "u", "t", "s">>

\* if calculate: persist the inputs, validate, then calculate and export
Calculate(headcount, region, hc_category, process_type, transform_scale, techs) ==
    LET errs == Validate(headcount, region, hc_category, process_type, transform_scale)
    IN
    /\ form' = [headcount |-> headcount, region |-> region,
                hc_category |-> hc_category, process_type |-> process_type,
                transform_scale |-> transform_scale, techs |-> techs]
    /\ UNCHANGED <<calcVars, fmtVars, excelVars>>
    /\ IF errs # <<>>
       THEN /\ pc' = "stopped"
            /\ errors' = errs
            /\ hc_val' = IF ParseHeadcount(headcount).raised = "None"
                         THEN ParseHeadcount(headcount).value ELSE None
            /\ results' = NotCalled
            /\ df_solutions' = NotCalled
            /\ df_display' = <<>>
            /\ financial_summary' = None
            /\ payback_display' = None
            /\ excel_bytes' = NotCalled
            /\ pdf_bytes' = NotCalled
       ELSE LET hc   == ParseHeadcount(headcount).value
                res  == calculate_costs(hc, techs)
                df   == per_solution_table(hc, techs)
                meta == [RunID |-> <<"RUN-", NOW>>, Timestamp |-> NOW]
                inp  == [Headcount |-> hc, Region |-> region,
                         HC_Category |-> hc_category, Process_Type |-> process_type,
                         Transformation_Scale |-> transform_scale,
                         Technologies |-> IF techs # <<>> THEN techs ELSE <<"None">>]
                fin  == FinancialSummary(res.value)
                xl   == <<[name |-> SOLUTIONS_SHEET, df |-> [table |-> df.value]],
                          [name |-> INPUTS_SHEET, df |-> [inputs |-> inp]]>>
            IN  /\ pc' = "calculated"
                /\ errors' = <<>>
                /\ hc_val' = hc
                /\ results' = res
                /\ df_solutions' = df
                /\ df_display' = [i \in 1..Len(df.value) |-> DisplayRow(df.value[i])]
                /\ financial_summary' = fin
                /\ payback_display' = PaybackDisplay(res.value.payback_years)
                \* the three sheet names differ: on_dup is never consulted
                /\ excel_bytes' = to_excel_bytes(xl, meta, "raise")
                /\ pdf_bytes' = to_pdf_bytes(meta, inp, df.value, fin)

CalculateRun ==
    \E headcount \in HeadcountTexts, dd \in DropdownInputs, techs \in UiTechs :
        Calculate(headcount, dd[1], dd[2], dd[3], dd[4], techs)

InitUI ==
    /\ form = EmptyForm
    /\ pc = "idle"
    /\ errors = <<>>
    /\ hc_val = None
    /\ results = NotCalled
    /\ df_solutions = NotCalled
    /\ df_display = <<>>
    /\ financial_summary = None
    /\ payback_display = None
    /\ excel_bytes = NotCalled
    /\ pdf_bytes = NotCalled

(***************************************************************************)
(* Direct calls of the calculator                                          *)
(***************************************************************************)
UNKNOWN_TECH == "Blockchain"

Headcounts == (-1)..MaxHeadcount

\* selections: every subset of the catalog as the UI builds it, and every
\* list up to MaxSelLen over the catalog and an identifier outside it
Selections ==
    {Ticked(S) : S \in SUBSET CatalogSet}
      \cup UNION {[1..n -> CatalogSet \cup {UNKNOWN_TECH}] : n \in 0..MaxSelLen}

InitCalcIdle ==
    /\ call_h = 0
    /\ call_techs = <<>>
    /\ ret_table = NotCalled
    /\ ret_costs = NotCalled

InitCalc ==
    /\ call_h \in Headcounts
    /\ call_techs \in Selections
    /\ ret_table = NotCalled
    /\ ret_costs = NotCalled

CallPerSolutionTable ==
    /\ ret_table = NotCalled
    /\ ret_table' = per_solution_table(call_h, call_techs)
    /\ UNCHANGED <<call_h, call_techs, ret_costs, uiVars, fmtVars, excelVars>>

CallCalculateCosts ==
    /\ ret_costs = NotCalled
    /\ ret_costs' = calculate_costs(call_h, call_techs)
    /\ UNCHANGED <<call_h, call_techs, ret_table, uiVars, fmtVars, excelVars>>

(***************************************************************************)
(* Direct calls of fmt_money                                               *)
(***************************************************************************)
FmtScales == {1, 1001, 100000}

NonNumericKinds == {"str", "NoneType", "list"}

FmtInputs ==
    {PyInt(n * k) : n \in (-MaxFmtNum)..MaxFmtNum, k \in FmtScales}
      \cup {PyFloat(n * k, d) : n \in (-MaxFmtNum)..MaxFmtNum, k \in {1, 1001}, d \in {1, 2, 4}}
      \cup {[kind |-> "bool", num |-> b, den |-> 1] : b \in {0, 1}}
      \cup {PyOther(k) : k \in NonNumericKinds \cup {"inf", "nan"}}

InitFmtIdle ==
    /\ fmt_arg = PyInt(0)
    /\ ret_fmt = NotCalled

InitFmt ==
    /\ fmt_arg \in FmtInputs
    /\ ret_fmt = NotCalled

CallFmtMoney ==
    /\ ret_fmt = NotCalled
    /\ ret_fmt' = fmt_money(fmt_arg)
    /\ UNCHANGED <<fmt_arg, uiVars, calcVars, excelVars>>

(***************************************************************************)
(* Direct calls of to_excel_bytes                                          *)
(***************************************************************************)
RECURSIVE Rep(_, _)
Rep(c, n) == IF n = 0 THEN <<>> ELSE <<c>> \o Rep(c, n - 1)

SheetNames ==
    {SOLUTIONS_SHEET, INPUTS_SHEET, META_SHEET,
     Rep("a", SheetNameMax - 1), Rep("a", SheetNameMax),
     Rep("a", SheetNameMax) \o <<"b">>, Rep("a", SheetNameMax) \o <<"c">>}

Distinct(s) == \A i, j \in 1..Len(s) : i # j => s[i] # s[j]

\* dicts of up to MaxTables tables; the table under a key is tagged by the key
TableDicts ==
    {[i \in 1..Len(ns) |-> [name |-> ns[i], df |-> [table |-> ns[i]]]] :
        ns \in {q \in UNION {[1..n -> SheetNames] : n \in 0..MaxTables} : Distinct(q)}}

RunMetas == {[RunID |-> <<"RUN-", t>>, Timestamp |-> t] : t \in Clock}

InitExcelIdle ==
    /\ xl_tables = <<>>
    /\ xl_meta = [RunID |-> <<"RUN-", 1>>, Timestamp |-> 1]
    /\ ret_excel = NotCalled

InitExcel ==
    /\ xl_tables \in TableDicts
    /\ xl_meta \in RunMetas
    /\ ret_excel = NotCalled

CallToExcelBytes ==
    /\ ret_excel = NotCalled
    /\ \E on_dup \in {"reuse", "raise"} :
            ret_excel' = to_excel_bytes(xl_tables, xl_meta, on_dup)
    /\ UNCHANGED <<xl_tables, xl_meta, uiVars, calcVars, fmtVars>>

(***************************************************************************)
(* Specifications                                                          *)
(***************************************************************************)
\* the Streamlit script
Init == InitUI /\ InitCalcIdle /\ InitFmtIdle /\ InitExcelIdle
Next == Reset \/ Sample \/ CalculateRun
Spec == Init /\ [][Next]_vars

\* the calculator's two operations on arbitrary arguments
CalcInit == InitUI /\ InitCalc /\ InitFmtIdle /\ InitExcelIdle
CalcNext == CallPerSolutionTable \/ CallCalculateCosts
CalcSpec == CalcInit /\ [][CalcNext]_vars

\* fmt_money on arbitrary arguments
FmtInit == InitUI /\ InitCalcIdle /\ InitFmt /\ InitExcelIdle
FmtNext == CallFmtMoney
FmtSpec == FmtInit /\ [][FmtNext]_vars

\* to_excel_bytes on arbitrary dicts
ExcelInit == InitUI /\ InitCalcIdle /\ InitFmtIdle /\ InitExcel
ExcelNext == CallToExcelBytes
ExcelSpec == ExcelInit /\ [][ExcelNext]_vars

(***************************************************************************)
(* Properties                                                              *)
(***************************************************************************)
IsNone(v) == "none" \in DOMAIN v

TableReturned == ret_table.raised = "None"
CostsReturned == ret_costs.raised = "None"

\* the selection is a duplicate-free list of catalog technologies
IsCatalogSubset(sel) ==
    /\ \A i \in 1..Len(sel) : sel[i] \in CatalogSet
    /\ Distinct(sel)

HasUnknown(sel) == \E i \in 1..Len(sel) : sel[i] \notin CatalogSet

\* sum of column c over the first n rows
RECURSIVE ColSum(_, _, _)
ColSum(rows, c, n) == IF n = 0 THEN 0 ELSE rows[n][c] + ColSum(rows, c, n - 1)

\* sum of the catalog license cost over the technologies of sel
RECURSIVE LicenseOver(_, _)
LicenseOver(sel, n) ==
    IF n = 0 THEN 0
    ELSE (IF InList(ALL_TECHS[n], sel) THEN TECH_LICENSE_COSTS[ALL_TECHS[n]] ELSE 0)
            + LicenseOver(sel, n - 1)

NTECH == Len(ALL_TECHS)

\* C1: for h > 0 and a subset S of the catalog, per_solution_table returns
\* |catalog| + 1 rows in catalog order, the last one is the Totals row, and
\* each of its four cost columns is the sum of that column over the rows
\* before it.
C1_TotalsRow ==
    (ret_table.raised # "NotCalled" /\ call_h > 0 /\ IsCatalogSubset(call_techs)) =>
        /\ TableReturned
        /\ Len(ret_table.value) = NTECH + 1
        /\ \A i \in 1..NTECH : ret_table.value[i].Solution = ALL_TECHS[i]
        /\ ret_table.value[NTECH + 1].Solution = "Total Cost"
        /\ \A k \in 1..Len(COST_COLUMNS) :
              ret_table.value[NTECH + 1][COST_COLUMNS[k]]
                = ColSum(ret_table.value, COST_COLUMNS[k], NTECH)

\* scenario A: h = 25, S = {RPA, AI}: Totals = {17000, 60000, 8750, 85750}
C1_Witness ==
    /\ TableReturned /\ call_h = 25 /\ call_techs = <<"RPA", "AI">>
    /\ ret_table.value[7].License_Cost = 17000
    /\ ret_table.value[7].Development_Cost = 60000
    /\ ret_table.value[7].User_License_Cost = 8750
    /\ ret_table.value[7].Total_Cost = 85750

\* C2: for h > 0, a subset S of the catalog and t in S, the row of t has the
\* catalog license cost, the catalog development cost, user license cost
\* perUserLicenseCost(t) * h, and total = the sum of the three.
C2_SelectedRow ==
    (ret_table.raised # "NotCalled" /\ call_h > 0 /\ IsCatalogSubset(call_techs)) =>
        /\ TableReturned
        /\ \A i \in 1..NTECH : InList(ALL_TECHS[i], call_techs) =>
              LET row == ret_table.value[i]
                  t   == ALL_TECHS[i]
              IN  /\ row.Solution = t
                  /\ row.License_Cost = TECH_LICENSE_COSTS[t]
                  /\ row.Development_Cost = DEV_COSTS[t]
                  /\ row.User_License_Cost = USER_LICENSE_PER_TECH[t] * call_h
                  /\ row.Total_Cost = row.License_Cost + row.Development_Cost
                                        + row.User_License_Cost

\* scenario A: RPA row = {5000, 20000, 2500, 27500}, AI row = {12000, 40000, 6250, 58250}
C2_Witness ==
    /\ TableReturned /\ call_h = 25 /\ call_techs = <<"RPA", "AI">>
    /\ ret_table.value[1].User_License_Cost = 2500
    /\ ret_table.value[1].Total_Cost = 27500
    /\ ret_table.value[6].User_License_Cost = 6250
    /\ ret_table.value[6].Total_Cost = 58250

ZeroRow(row) ==
    /\ row.License_Cost = 0 /\ row.Development_Cost = 0
    /\ row.User_License_Cost = 0 /\ row.Total_Cost = 0

\* C3: for h > 0, a subset S of the catalog and a catalog technology t not
\* in S, the row of t is all zero; with S empty every row, the Totals row
\* included, is all zero.
C3_UnselectedRow ==
    (ret_table.raised # "NotCalled" /\ call_h > 0 /\ IsCatalogSubset(call_techs)) =>
        /\ TableReturned
        /\ \A i \in 1..NTECH : ~ InList(ALL_TECHS[i], call_techs) =>
              /\ ret_table.value[i].Solution = ALL_TECHS[i]
              /\ ZeroRow(ret_table.value[i])
        /\ call_techs = <<>> =>
              \A i \in 1..(NTECH + 1) : ZeroRow(ret_table.value[i])

\* a selection that leaves out a technology with nonzero costs, next to a selected one
C3_Witness ==
    /\ TableReturned /\ call_h = 10 /\ call_techs = <<"RPA", "AI">>
    /\ ret_table.value[3].Solution = "Celonis"
    /\ ZeroRow(ret_table.value[3])
    /\ ret_table.value[1].Total_Cost > 0

\* C4: for h > 0 and a subset S of the catalog, calculate_costs returns
\* headcountCost = h * 60000, implementationCost = 20% of it, annualSavings
\* = 30% of it, techCost = the catalog license cost summed over S only, and
\* netAnnualCost = headcountCost - annualSavings + techCost; the five fields
\* are always present.
C4_FinancialSummary ==
    (ret_costs.raised # "NotCalled" /\ call_h > 0 /\ IsCatalogSubset(call_techs)) =>
        /\ CostsReturned
        /\ {"headcount_cost", "implementation_cost", "tech_cost", "annual_savings",
            "net_annual_cost"} \subseteq DOMAIN ret_costs.value
        /\ LET r == ret_costs.value
           IN  /\ r.headcount_cost = call_h * 60000
               /\ 100 * r.implementation_cost = 20 * r.headcount_cost
               /\ 100 * r.annual_savings = 30 * r.headcount_cost
               /\ r.tech_cost = LicenseOver(call_techs, NTECH)
               /\ r.net_annual_cost = r.headcount_cost - r.annual_savings + r.tech_cost

\* scenario B: h = 25, S = {RPA, AI}
C4_Witness ==
    /\ CostsReturned /\ call_h = 25 /\ call_techs = <<"RPA", "AI">>
    /\ ret_costs.value.headcount_cost = 1500000
    /\ ret_costs.value.implementation_cost = 300000
    /\ ret_costs.value.annual_savings = 450000
    /\ ret_costs.value.tech_cost = 17000
    /\ ret_costs.value.net_annual_cost = 1067000

\* C5: calculate_costs leaves paybackYears None whenever annualSavings <= 0;
\* whenever annualSavings > 0 paybackYears is implementationCost /
\* annualSavings, so for every h > 0 it is present and equals 20/30.
C5_Payback ==
    CostsReturned =>
        LET r == ret_costs.value
        IN  /\ r.annual_savings <= 0 => IsNone(r.payback_years)
            /\ r.annual_savings > 0 =>
                  /\ ~ IsNone(r.payback_years)
                  /\ r.payback_years.den > 0
                  /\ r.payback_years.num * r.annual_savings
                       = r.payback_years.den * r.implementation_cost
            /\ call_h > 0 =>
                  /\ ~ IsNone(r.payback_years)
                  /\ r.payback_years.num * 30 = r.payback_years.den * 20

\* no savings (h = 0): the payback is None
C5_Witness ==
    /\ CostsReturned /\ call_h = 0
    /\ ret_costs.value.annual_savings = 0
    /\ IsNone(ret_costs.value.payback_years)

\* C6 as stated: when the selection holds an identifier that is not a key of
\* the rate tables, per_solution_table and calculate_costs fail with an
\* error instead of returning a table or a summary.
C6_UnknownRaises ==
    HasUnknown(call_techs) => (~ TableReturned /\ ~ CostsReturned)

KnownOnly(sel) == LET Test(t) == t \in CatalogSet IN SelectSeq(sel, Test)

\* C6 amended: an identifier that is not a key of the rate tables raises
\* nothing and is ignored: per_solution_table returns the table of the
\* selection without it, calculate_costs counts it as zero in techCost.
C6_UnknownIgnored ==
    HasUnknown(call_techs) =>
        /\ ret_table.raised # "NotCalled" =>
              /\ TableReturned
              /\ Len(ret_table.value) = NTECH + 1
              /\ \A i \in 1..NTECH : ret_table.value[i].Solution # UNKNOWN_TECH
              /\ \A i \in 1..NTECH :
                    ret_table.value[i].License_Cost =
                        IF InList(ALL_TECHS[i], KnownOnly(call_techs))
                        THEN TECH_LICENSE_COSTS[ALL_TECHS[i]] ELSE 0
        /\ ret_costs.raised # "NotCalled" =>
              /\ CostsReturned
              /\ ret_costs.value.tech_cost
                    = ColSum([i \in 1..Len(KnownOnly(call_techs)) |->
                                [c |-> TECH_LICENSE_COSTS[KnownOnly(call_techs)[i]]]],
                             "c", Len(KnownOnly(call_techs)))

C6_Witness ==
    /\ call_techs = <<"RPA", UNKNOWN_TECH>>
    /\ TableReturned /\ CostsReturned
    /\ ret_costs.value.tech_cost = 5000
    /\ ret_table.value[7].License_Cost = 5000

\* the text denotes a whole number greater than zero (surrounding blanks and
\* a fraction of zeros allowed)
IsPositiveIntegerText(text) ==
    LET f == ParseFloat(strip(text))
    IN  /\ f.ok
        /\ ~ f.neg
        /\ \A i \in 1..Len(f.fpart) : f.fpart[i] = "0"
        /\ DigitsValue(f.ipart) > 0

AllFilled(f) ==
    /\ ~ IsNone(f.region) /\ f.region.s # ""
    /\ ~ IsNone(f.hc_category) /\ f.hc_category.s # ""
    /\ ~ IsNone(f.process_type) /\ f.process_type.s # ""
    /\ ~ IsNone(f.transform_scale) /\ f.transform_scale.s # ""

\* C7: a Calculate submission stops with a validation error whenever the
\* entered headcount is not a positive integer or one of the four
\* categorical fields is empty, and reaches the calculation only with a
\* positive integer headcount and four non-empty fields.
C7_Validation ==
    /\ pc = "stopped" =>
          /\ errors # <<>>
          /\ results.raised = "NotCalled" /\ df_solutions.raised = "NotCalled"
          /\ excel_bytes.raised = "NotCalled" /\ pdf_bytes.raised = "NotCalled"
    /\ pc = "calculated" =>
          /\ IsPositiveIntegerText(form.headcount)
          /\ AllFilled(form)

\* C8: fmt_money never raises and always returns a string; for a
\* non-numeric argument the string is the one of fmt_money(0).
C8_FmtTotal ==
    ret_fmt.raised # "NotCalled" =>
        /\ ret_fmt.raised = "None"
        /\ ret_fmt.value \in Seq(DigitChars \cup {"$", ",", "-"})
        /\ fmt_arg.kind \in NonNumericKinds =>
              ret_fmt.value = fmt_money(PyInt(0)).value

C8_Witness ==
    /\ fmt_arg.kind = "str"
    /\ ret_fmt.raised = "None"
    /\ ret_fmt.value = <<"$", "0">>

MetaSheets(sheets) == {i \in 1..Len(sheets) : "meta" \in DOMAIN sheets[i].data}

\* C9: the workbook of to_excel_bytes has one sheet per supplied table, named
\* by the table's name cut to 31 characters, plus exactly one metadata
\* sheet: tables + 1 sheets, no table lost or overwritten.
C9_OneSheetPerTable ==
    ret_excel.raised # "NotCalled" =>
        /\ ret_excel.raised = "None"
        /\ Len(ret_excel.value) = Len(xl_tables) + 1
        /\ Cardinality(MetaSheets(ret_excel.value)) = 1
        /\ \A i \in 1..Len(xl_tables) :
              \E j \in 1..Len(ret_excel.value) :
                  /\ ret_excel.value[j].name = Truncate(xl_tables[i].name)
                  /\ ret_excel.value[j].data = xl_tables[i].df

\* C10: for h > 0 and a duplicate-free subset S of the catalog, techCost of
\* calculate_costs equals the License Cost of the Totals row of
\* per_solution_table.
C10_LicenseAgreement ==
    (ret_table.raised # "NotCalled" /\ ret_costs.raised # "NotCalled"
        /\ call_h > 0 /\ IsCatalogSubset(call_techs)) =>
        /\ TableReturned /\ CostsReturned
        /\ ret_costs.value.tech_cost
             = ret_table.value[Len(ret_table.value)].License_Cost

C10_Witness ==
    /\ TableReturned /\ CostsReturned
    /\ call_h = 25 /\ call_techs = <<"AI", "RPA">>
    /\ ret_costs.value.tech_cost = 17000
    /\ ret_table.value[7].License_Cost = 17000

====
